---- MODULE Spec2Model ----
(***************************************************************************)
(* GoogleSheetsConnector (gsheets_db_connector/googlesheets.py): one       *)
(* connector holding a spreadsheet handle (self.__sheet) and a database    *)
(* connection (self.__dbconn).  Every public method is one action.  The    *)
(* spreadsheet is a list of worksheets in the service's listing order,     *)
(* each a title and a grid of cells; the database is a map from table      *)
(* names to row lists.  Calls are synchronous and single-threaded, so each *)
(* handler is atomic.  For the latest call the model records its name, the *)
(* exception that reached the caller and the log records it emitted.       *)
(***************************************************************************)
EXTENDS Integers, Sequences, FiniteSets, TLC

VARIABLES sheet, dbconn, call, raised, log

vars == <<sheet, dbconn, call, raised, log>>

----------------------------------------------------------------------------
(* Bounds *)

\* rows of a worksheet grid (row 1 is the header row of get_all_records)
NRows == 3
\* worksheets the spreadsheet may hold
MaxSheets == 2
\* rows a database table may hold
MaxTableRows == 2

\* column letters of a worksheet grid
ColNames == <<"A">>
NCols == Len(ColNames)

Titles == {"Employees", "Departments"}
\* cell contents; "" is the empty cell
Values == {"", "x"}

Rows == 1..NRows
Cols == 1..NCols
Coords == Rows \X Cols

----------------------------------------------------------------------------
(* The spreadsheet service client (gspread) as the connector consumes it *)

\* rowcol_to_a1: the A1 label of a coordinate
RowColToA1(rc) == ColNames[rc[2]] \o ToString(rc[1])

Labels == {RowColToA1(rc) : rc \in Coords}

\* a1_to_rowcol: the coordinate an A1 label names
A1Coords == [l \in Labels |-> CHOOSE rc \in Coords : RowColToA1(rc) = l]
A1ToRowCol(label) == A1Coords[label]

EmptyGrid == [r \in Rows |-> [c \in Cols |-> ""]]

\* worksheets() handing the titles back last first
WorksheetTitlesReversed(sh) == [i \in 1..Len(sh) |-> sh[Len(sh) + 1 - i].title]

\* Spreadsheet.worksheets(): the titles in listing order
WorksheetTitles(sh) == [i \in 1..Len(sh) |-> sh[i].title]

\* worksheet(title) falling back to the first worksheet (as sheet1 does)
WorksheetOrFirst(sh, title) ==
  IF \E i \in 1..Len(sh) : sh[i].title = title
  THEN CHOOSE i \in 1..Len(sh) :
         /\ sh[i].title = title
         /\ \A j \in 1..(i - 1) : sh[j].title # title
  ELSE 1

\* Spreadsheet.worksheet(title): the position of the first worksheet with that
\* title, 0 when there is none (the client raises WorksheetNotFound)
Worksheet(sh, title) ==
  IF \E i \in 1..Len(sh) : sh[i].title = title
  THEN CHOOSE i \in 1..Len(sh) :
         /\ sh[i].title = title
         /\ \A j \in 1..(i - 1) : sh[j].title # title
  ELSE 0

\* update_acell writing one row below the cell the label names
UpdateAcellRowOff(grid, label, value) ==
  [grid EXCEPT ![(A1ToRowCol(label)[1] % NRows) + 1][A1ToRowCol(label)[2]] = value]

\* Worksheet.update_acell(label, value): one cell of the grid is overwritten
UpdateAcell(grid, label, value) ==
  [grid EXCEPT ![A1ToRowCol(label)[1]][A1ToRowCol(label)[2]] = value]

\* a clear that removes the header row only
ClearHeaderOnly(grid) == [grid EXCEPT ![1] = [c \in Cols |-> ""]]

\* Worksheet.clear(): every value of the grid is removed
Clear(grid) == EmptyGrid

\* the last row holding a value, 0 for an empty grid
LastRow(grid) ==
  IF \E r \in Rows : \E c \in Cols : grid[r][c] # ""
  THEN CHOOSE r \in Rows :
         /\ \E c \in Cols : grid[r][c] # ""
         /\ \A q \in Rows : q > r => \A c \in Cols : grid[q][c] = ""
  ELSE 0

\* get_all_records taking the first row for a record too (no header row)
GetAllRecordsNoHeader(grid) == [k \in 1..LastRow(grid) |-> grid[k]]

\* Worksheet.get_all_records(): the rows below the header row (row 1), up to
\* the last row holding a value; none when the grid has no row below it
GetAllRecords(grid) ==
  IF LastRow(grid) <= 1 THEN <<>>
  ELSE [k \in 1..(LastRow(grid) - 1) |-> grid[k + 1]]

\* add_worksheet naming the new worksheet after the first one
AddWorksheetWrongTitle(sh, title) ==
  Append(sh, [title |-> sh[1].title, cells |-> EmptyGrid])

\* Spreadsheet.add_worksheet(title, rows, cols): a new empty worksheet at the
\* end of the listing
AddWorksheet(sh, title) == Append(sh, [title |-> title, cells |-> EmptyGrid])

\* Spreadsheet.values_append(range, params, body): the body's row goes below
\* the last row holding a value of the worksheet the range names
ValuesAppend(grid, row) == [grid EXCEPT ![LastRow(grid) + 1] = row]

----------------------------------------------------------------------------
(* The database connection as the connector consumes it *)

\* to_sql with if_exists='replace': the frame's rows replace the table's
ToSqlReplace(db, name, rows) ==
  [t \in DOMAIN db \cup {name} |-> IF t = name THEN rows ELSE db[t]]

\* DataFrame.to_sql(name, con, if_exists='append', index=False): the table is
\* created when absent, and the frame's rows go after the rows it holds
ToSql(db, name, rows) ==
  IF name \in DOMAIN db
  THEN [db EXCEPT ![name] = db[name] \o rows]
  ELSE [t \in DOMAIN db \cup {name} |-> IF t = name THEN rows ELSE db[t]]

\* Connection.executescript of a script holding CREATE TABLE name
ExecuteScript(db, name) ==
  [t \in DOMAIN db \cup {name} |-> IF t = name THEN <<>> ELSE db[t]]

----------------------------------------------------------------------------
(* Log records: level, message, arguments *)

Info(msg, args) == [level |-> "info", msg |-> msg, args |-> args]
Error(msg, args) == [level |-> "error", msg |-> msg, args |-> args]

----------------------------------------------------------------------------
(* The state after construction *)

\* __init__ opens an existing spreadsheet: its worksheets have pairwise
\* distinct titles (the service never holds two of one title) and at least one
\* worksheet exists.  The database connection is handed in already open.
InitSheets ==
  { <<[title |-> "Employees", cells |-> g]>> :
      g \in {EmptyGrid, [r \in Rows |-> [c \in Cols |-> "x"]]} }
  \cup
  { <<[title |-> "Employees", cells |-> [r \in Rows |-> [c \in Cols |-> "x"]]],
      [title |-> "Departments", cells |-> EmptyGrid]>> }

Init ==
  /\ sheet \in InitSheets
  /\ dbconn = [t \in {} |-> <<>>]
  /\ call = "__init__"
  /\ raised = "None"
  /\ log = <<Info("Google Sheets connection established.", <<>>)>>

\* one call returns (or raises): the collaborators' new state and what
\* reached the caller
Return(op, sh, db, exc, lg) ==
  /\ sheet' = sh
  /\ dbconn' = db
  /\ call' = op
  /\ raised' = exc
  /\ log' = lg

----------------------------------------------------------------------------
(* Operations *)

\* update_cell(worksheet, cell, new_value)
update_cell(worksheet, cell, new_value) ==
  LET i == Worksheet(sheet, worksheet) IN
  IF i = 0
  THEN Return("update_cell",
              sheet, dbconn, "WorksheetNotFound", <<>>)
  ELSE Return("update_cell",
              [sheet EXCEPT ![i].cells = UpdateAcell(@, cell, new_value)],
              dbconn, "None", <<>>)

\* clear_worksheet(worksheet)
clear_worksheet(worksheet) ==
  LET i == Worksheet(sheet, worksheet) IN
  IF i = 0
  THEN Return("clear_worksheet",
              sheet, dbconn, "WorksheetNotFound", <<>>)
  ELSE Return("clear_worksheet",
              [sheet EXCEPT ![i].cells = Clear(@)], dbconn, "None", <<>>)

\* create_tables(file_path): the file, when it can be read, holds the
\* statement CREATE TABLE name; creating a table that exists fails
create_tables(readable, name) ==
  IF ~readable
  THEN Return("create_tables", sheet, dbconn, "IOError", <<>>)
  ELSE IF name \in DOMAIN dbconn
  THEN Return("create_tables",
              sheet, dbconn, "DatabaseError", <<>>)
  ELSE Return("create_tables",
              sheet, ExecuteScript(dbconn, name), "None", <<>>)

\* the loop of extract_data over spreadsheet sh from position i of
\* worksheet_list on: db and lg are the tables and the log records so far,
\* bad the table the database refuses to append to (to_sql raises)
RECURSIVE ExtractLoop(_, _, _, _, _, _)
ExtractLoop(sh, worksheet_list, i, db, lg, bad) ==
  IF i > Len(worksheet_list)
  THEN [db |-> db, raised |-> "None",
        log |-> Append(lg,
          Info("Mappings were successfully extracted from google sheets.", <<>>))]
  ELSE
    LET title == worksheet_list[i]
        data == sh[Worksheet(sh, title)]
        df == GetAllRecords(data.cells)
        lg2 == lg \o <<Info("Extracting %s", <<title>>),
                       Info("%s %s extracted", <<Len(df), title>>)>>
    IN IF Len(df) # 0
       THEN IF title = bad
            THEN [db |-> db, raised |-> "DatabaseError", log |-> lg2]
            ELSE ExtractLoop(sh, worksheet_list, i + 1, ToSql(db, title, df), lg2, bad)
       ELSE ExtractLoop(sh, worksheet_list, i + 1, db, lg2, bad)

\* extract_data()
extract_data(bad) ==
  LET r == ExtractLoop(sheet, WorksheetTitles(sheet), 1, dbconn,
                       <<Info("Extracting mappings from Google sheet.", <<>>)>>, bad)
  IN /\ \A t \in DOMAIN r.db : Len(r.db[t]) <= MaxTableRows
     /\ Return("extract_data", sheet, r.db, r.raised, r.log)

\* a Python value handed to the client: a str or a tuple
PyStr(s) == [type |-> "str", value |-> s]
PyTuple(t) == [type |-> "tuple", value |-> t]

\* the argument update_in_range hands to Worksheet.range
RangeArg(start_cell, end_cell) == PyTuple(<<"%s:%s", start_cell, end_cell>>)

\* the cells of the rectangle between two corner labels, row by row
RectCells(start_cell, end_cell) ==
  LET a == A1ToRowCol(start_cell)
      b == A1ToRowCol(end_cell)
      w == b[2] - a[2] + 1
      n == IF b[1] < a[1] \/ b[2] < a[2] THEN 0 ELSE (b[1] - a[1] + 1) * w
  IN [k \in 1..n |-> <<a[1] + ((k - 1) \div w), a[2] + ((k - 1) % w)>>]

\* an A1 range string, "start:end", and the corner labels it names
IsRangeString(name) ==
  /\ name.type = "str"
  /\ \E p \in Labels \X Labels : name.value = p[1] \o ":" \o p[2]

ParseRange(s) == CHOOSE p \in Labels \X Labels : s = p[1] \o ":" \o p[2]

\* Worksheet.range(name): name is a str in A1 notation; the cells of the
\* range come back row by row, each with its value.  The client raises on
\* any other argument.
Range(grid, name) ==
  IF IsRangeString(name)
  THEN LET rect == RectCells(ParseRange(name.value)[1], ParseRange(name.value)[2])
       IN [ok |-> TRUE,
           cell_list |-> [k \in 1..Len(rect) |->
              [rc |-> rect[k], value |-> grid[rect[k][1]][rect[k][2]]]]]
  ELSE [ok |-> FALSE, cell_list |-> <<>>]

\* Worksheet.update_cells(cell_list): every cell of the list is written
RECURSIVE UpdateCells(_, _)
UpdateCells(grid, cell_list) ==
  IF cell_list = <<>> THEN grid
  ELSE UpdateCells([grid EXCEPT ![Head(cell_list).rc[1]][Head(cell_list).rc[2]] =
                                   Head(cell_list).value],
                   Tail(cell_list))

\* update_in_range(worksheet, start_cell, end_cell, cell_values)
update_in_range(worksheet, start_cell, end_cell, cell_values) ==
  LET i == Worksheet(sheet, worksheet) IN
  IF i = 0
  THEN Return("update_in_range", sheet, dbconn, "WorksheetNotFound", <<>>)
  ELSE
    LET r == Range(sheet[i].cells, RangeArg(start_cell, end_cell)) IN
    IF ~r.ok
    THEN Return("update_in_range", sheet, dbconn, "ClientError", <<>>)
    ELSE IF Len(cell_values) > Len(r.cell_list)
    THEN Return("update_in_range", sheet, dbconn, "IndexError", <<>>)
    ELSE Return("update_in_range",
                [sheet EXCEPT ![i].cells = UpdateCells(@,
                   [k \in 1..Len(r.cell_list) |->
                      IF k <= Len(cell_values)
                      THEN [r.cell_list[k] EXCEPT !.value = cell_values[k]]
                      ELSE r.cell_list[k]])],
                dbconn, "None", <<>>)

\* the membership test skipping the first worksheet of the listing
TitleExistsAfterFirst(sh, title) ==
  \E i \in 2..Len(sh) : WorksheetTitles(sh)[i] = title

\* title in [ws.title for ws in self.__sheet.worksheets()]
TitleExists(sh, title) == \E i \in 1..Len(sh) : WorksheetTitles(sh)[i] = title

\* create_worksheet(title)
create_worksheet(title) ==
  IF TitleExists(sheet, title)
  THEN Return("create_worksheet", sheet, dbconn, "None",
              <<Error("Worksheet '%s' already exists", <<title>>)>>)
  ELSE /\ Len(sheet) < MaxSheets
       /\ Return("create_worksheet", AddWorksheet(sheet, title), dbconn,
                 "None", <<Info("Creating Worksheet", <<>>),
                           Info("Worksheet created", <<>>)>>)

\* write_to_sheet(sheet_range, params, body): the range names a worksheet and
\* the body holds one row of values
write_to_sheet(sheet_range, body) ==
  LET i == Worksheet(sheet, sheet_range)
      lg == <<Info("Writing Data to sheet", <<>>)>>
  IN
  IF i = 0
  THEN Return("write_to_sheet", sheet, dbconn, "APIError", lg)
  ELSE /\ LastRow(sheet[i].cells) < NRows
       /\ Return("write_to_sheet",
                 [sheet EXCEPT ![i].cells = ValuesAppend(@, body)], dbconn, "None",
                 Append(lg, Info("Data successfully uploaded", <<>>)))

\* the value sequences update_in_range is called with
ValueLists == UNION {[1..n -> {"x"}] : n \in 1..(NRows * NCols + 1)}

\* the rows write_to_sheet appends
BodyRows == [Cols -> Values] \ {[c \in Cols |-> ""]}

\* the start cell update_in_range is called with
TopLeft == RowColToA1(<<1, 1>>)

\* no table: the database accepts every append
NoTitle == "-"

Next ==
  \/ \E w \in Titles, c \in Labels, v \in Values : update_cell(w, c, v)
  \/ \E w \in Titles : clear_worksheet(w)
  \/ \E f \in BOOLEAN, n \in Titles : create_tables(f, n)
  \/ \E bad \in Titles \cup {NoTitle} : extract_data(bad)
  \/ \E w \in Titles, e \in Labels, vs \in ValueLists :
       /\ Len(vs) \in (Len(RectCells(TopLeft, e)) - 1)..(Len(RectCells(TopLeft, e)) + 1)
       /\ update_in_range(w, TopLeft, e, vs)
  \/ \E t \in Titles : create_worksheet(t)
  \/ \E w \in Titles, b \in BodyRows : write_to_sheet(w, b)

Spec == Init /\ [][Next]_vars

----------------------------------------------------------------------------
(* Properties *)

\* the grid holds no record: no value below the header row
ZeroRecords(grid) == \A r \in Rows \ {1} : \A c \in Cols : grid[r][c] = ""

\* the number of records of a grid: the rows below the header row up to the
\* last row holding a value
NumRecords(grid) == IF LastRow(grid) <= 1 THEN 0 ELSE LastRow(grid) - 1

\* table t is the same in db1 and db2: absent in both, or the same rows
SameTable(db1, db2, t) ==
  /\ t \in DOMAIN db1 <=> t \in DOMAIN db2
  /\ t \in DOMAIN db1 => db1[t] = db2[t]

\* the number of rows of table t, 0 when the table is absent
RowCount(db, t) == IF t \in DOMAIN db THEN Len(db[t]) ELSE 0

HasTitle(sh, t) == \E i \in 1..Len(sh) : sh[i].title = t

Failures == Titles \cup {NoTitle}

\* C1: extract_data neither creates nor changes the table named after a
\* worksheet that has zero records, whatever the other worksheets hold and
\* whether the call succeeds or not.
C1_ZeroRecordsUntouched ==
  [][call' = "extract_data" => \A bad \in Failures : extract_data(bad) =>
       \A i \in 1..Len(sheet) :
         ZeroRecords(sheet[i].cells) => SameTable(dbconn, dbconn', sheet[i].title)]_vars

\* extract_data has run over a spreadsheet holding a worksheet without
\* records, whose table is absent, and a worksheet with records, whose table
\* it filled
C1_Witness ==
  /\ call = "extract_data"
  /\ raised = "None"
  /\ \E i, j \in 1..Len(sheet) :
       /\ ZeroRecords(sheet[i].cells)
       /\ sheet[i].title \notin DOMAIN dbconn
       /\ ~ZeroRecords(sheet[j].cells)
       /\ sheet[j].title \in DOMAIN dbconn

\* C2: a successful extract_data appends exactly N rows, the worksheet's
\* records, to the table named after every worksheet with N >= 1 records,
\* creating the table when it is absent; every call does so again, so the row
\* count grows by N per call without deduplication.
C2_AppendsNRows ==
  [][call' = "extract_data" => \A bad \in Failures :
     (extract_data(bad) /\ raised' = "None") =>
       \A i \in 1..Len(sheet) :
         NumRecords(sheet[i].cells) >= 1 =>
           /\ sheet[i].title \in DOMAIN dbconn'
           /\ RowCount(dbconn', sheet[i].title) =
                RowCount(dbconn, sheet[i].title) + NumRecords(sheet[i].cells)
           /\ \A k \in 1..RowCount(dbconn, sheet[i].title) :
                dbconn'[sheet[i].title][k] = dbconn[sheet[i].title][k]]_vars

\* extract_data has succeeded on a worksheet with one record whose table
\* now holds two rows: the second call appended the record again
C2_Witness ==
  /\ call = "extract_data"
  /\ raised = "None"
  /\ \E i \in 1..Len(sheet) :
       /\ NumRecords(sheet[i].cells) = 1
       /\ RowCount(dbconn, sheet[i].title) = 2
       /\ dbconn[sheet[i].title][1] = dbconn[sheet[i].title][2]

\* C3: create_worksheet with a title the spreadsheet holds changes neither
\* the worksheets nor the database, raises nothing and emits exactly one log
\* record of level error.
C3_DuplicateIsNoOp ==
  [][call' = "create_worksheet" => \A t \in Titles :
     (create_worksheet(t) /\ HasTitle(sheet, t)) =>
       /\ sheet' = sheet
       /\ dbconn' = dbconn
       /\ raised' = "None"
       /\ Len(SelectSeq(log', LAMBDA e : e.level = "error")) = 1]_vars

\* create_worksheet has returned after logging the duplicate title
C3_Witness ==
  /\ call = "create_worksheet"
  /\ raised = "None"
  /\ \E t \in Titles : HasTitle(sheet, t) /\
       log = <<Error("Worksheet '%s' already exists", <<t>>)>>

TitlesDistinct(sh) ==
  \A i, j \in 1..Len(sh) : i # j => sh[i].title # sh[j].title

\* C4: the worksheet titles stay pairwise distinct through every call, and
\* create_worksheet with a title not yet present adds exactly one worksheet,
\* with that title, to the listing.
C4_TitlesUnique ==
  /\ TitlesDistinct(sheet)
  /\ [][/\ TitlesDistinct(sheet) => TitlesDistinct(sheet')
        /\ call' = "create_worksheet" => \A t \in Titles :
           (create_worksheet(t) /\ ~HasTitle(sheet, t)) =>
             /\ Len(sheet') = Len(sheet) + 1
             /\ SubSeq(sheet', 1, Len(sheet)) = sheet
             /\ sheet'[Len(sheet')].title = t]_vars

\* create_worksheet has added a second worksheet
C4_Witness ==
  /\ call = "create_worksheet"
  /\ Len(sheet) = 2
  /\ log = <<Info("Creating Worksheet", <<>>), Info("Worksheet created", <<>>)>>

\* the value a read of the cell labelled label of the worksheet titled t gives
ReadCell(sh, t, label) ==
  LET i == CHOOSE k \in 1..Len(sh) : sh[k].title = t
      rc == CHOOSE q \in Coords : RowColToA1(q) = label
  IN sh[i].cells[rc[1]][rc[2]]

\* the worksheets of sh2 are those of sh1, in the same order, by title
SameListing(sh1, sh2) ==
  /\ Len(sh1) = Len(sh2)
  /\ \A i \in 1..Len(sh1) : sh1[i].title = sh2[i].title

\* the value sequences and corner labels update_in_range is called with
RangeCalls == Titles \X {TopLeft} \X Labels \X ValueLists

\* C5: update_in_range with as many values as the range has cells writes
\* values[i] to the i-th cell of the range, row by row, and changes no cell
\* outside the range.
C5_RangeWritten ==
  [][call' = "update_in_range" => \A a \in RangeCalls :
       (/\ update_in_range(a[1], a[2], a[3], a[4])
        /\ HasTitle(sheet, a[1])
        /\ Len(RectCells(a[2], a[3])) = Len(a[4])) =>
         /\ SameListing(sheet, sheet')
         /\ \A k \in 1..Len(a[4]) :
              ReadCell(sheet', a[1], RowColToA1(RectCells(a[2], a[3])[k])) = a[4][k]
         /\ \A i \in 1..Len(sheet) : \A rc \in Coords :
              (sheet[i].title # a[1] \/ \A k \in 1..Len(a[4]) : RectCells(a[2], a[3])[k] # rc)
                => sheet'[i].cells[rc[1]][rc[2]] = sheet[i].cells[rc[1]][rc[2]]]_vars

\* C6: update_cell on an existing worksheet makes a read of that cell give
\* the written value, and every other cell of that worksheet and of every
\* other worksheet keeps its value.
C6_CellReadBack ==
  [][call' = "update_cell" => \A w \in Titles, c \in Labels, v \in Values :
       (update_cell(w, c, v) /\ HasTitle(sheet, w)) =>
         /\ SameListing(sheet, sheet')
         /\ ReadCell(sheet', w, c) = v
         /\ raised' = "None"
         /\ \A i \in 1..Len(sheet) : \A rc \in Coords :
              (sheet[i].title # w \/ RowColToA1(rc) # c)
                => sheet'[i].cells[rc[1]][rc[2]] = sheet[i].cells[rc[1]][rc[2]]]_vars

\* update_cell has written into one of two worksheets that both hold values
\* and empty cells
C6_Witness ==
  /\ call = "update_cell"
  /\ raised = "None"
  /\ Len(sheet) = 2
  /\ \A i \in 1..Len(sheet) :
       /\ \E rc \in Coords : sheet[i].cells[rc[1]][rc[2]] = "x"
       /\ \E rc \in Coords : sheet[i].cells[rc[1]][rc[2]] = ""

\* C7: update_cell and clear_worksheet with a title the spreadsheet does not
\* hold raise the client's worksheet-not-found error to the caller and leave
\* the worksheets, every cell and the database as they were.
C7_MissingTitleRaises ==
  [][/\ call' = "update_cell" => \A w \in Titles, c \in Labels, v \in Values :
          (update_cell(w, c, v) /\ ~HasTitle(sheet, w)) =>
            raised' = "WorksheetNotFound" /\ sheet' = sheet /\ dbconn' = dbconn
     /\ call' = "clear_worksheet" => \A w \in Titles :
          (clear_worksheet(w) /\ ~HasTitle(sheet, w)) =>
            raised' = "WorksheetNotFound" /\ sheet' = sheet /\ dbconn' = dbconn]_vars

\* update_cell has raised on a missing title while the one worksheet there
\* is holds values
C7_Witness ==
  /\ call = "update_cell"
  /\ raised = "WorksheetNotFound"
  /\ \E t \in Titles : ~HasTitle(sheet, t)
  /\ \E rc \in Coords : sheet[1].cells[rc[1]][rc[2]] = "x"

\* C8: clear_worksheet on an existing worksheet leaves the listing as it
\* was, the named worksheet without a value (so without records), every
\* other worksheet and the database unchanged, and an extract_data that
\* follows leaves the table of that name as it is.
C8_ClearLeavesEmptyWorksheet ==
  [][call' = "clear_worksheet" => \A w \in Titles :
     (clear_worksheet(w) /\ HasTitle(sheet, w)) =>
       /\ SameListing(sheet, sheet')
       /\ raised' = "None"
       /\ dbconn' = dbconn
       /\ \A i \in 1..Len(sheet) :
            IF sheet[i].title = w
            THEN /\ \A rc \in Coords : sheet'[i].cells[rc[1]][rc[2]] = ""
                 /\ NumRecords(sheet'[i].cells) = 0
            ELSE sheet'[i] = sheet[i]
       /\ \A bad \in Failures :
            SameTable(dbconn',
                      ExtractLoop(sheet', WorksheetTitles(sheet'), 1, dbconn', <<>>, bad).db,
                      w)]_vars

\* clear_worksheet has emptied a worksheet whose records had been extracted,
\* beside a worksheet that still holds records
C8_Witness ==
  /\ call = "clear_worksheet"
  /\ raised = "None"
  /\ \E i, j \in 1..Len(sheet) :
       /\ sheet[i].cells = EmptyGrid
       /\ RowCount(dbconn, sheet[i].title) >= 1
       /\ NumRecords(sheet[j].cells) >= 1

\* the titles of the worksheets a call of extract_data visited, from its log
Visited(lg) ==
  LET v == SelectSeq(lg, LAMBDA e : e.msg = "Extracting %s")
  IN [k \in 1..Len(v) |-> v[k].args[1]]

\* C9: extract_data visits the worksheets once each in listing order; when
\* the append for the k-th worksheet fails the error reaches the caller at
\* once, the tables of the worksheets with records before k have their rows
\* and no table of a worksheet after k is created or written.
C9_OrderAndFailure ==
  [][call' = "extract_data" => \A bad \in Failures : extract_data(bad) =>
       /\ raised' \in {"None", "DatabaseError"}
       /\ raised' = "None" =>
            /\ Len(Visited(log')) = Len(sheet)
            /\ \A i \in 1..Len(sheet) : Visited(log')[i] = sheet[i].title
       /\ raised' = "DatabaseError" =>
            \E k \in 1..Len(sheet) :
              /\ sheet[k].title = bad
              /\ NumRecords(sheet[k].cells) >= 1
              /\ Len(Visited(log')) = k
              /\ \A i \in 1..k : Visited(log')[i] = sheet[i].title
              /\ \A i \in 1..(k - 1) :
                   RowCount(dbconn', sheet[i].title) =
                     RowCount(dbconn, sheet[i].title) + NumRecords(sheet[i].cells)
              /\ \A i \in (k + 1)..Len(sheet) :
                   SameTable(dbconn, dbconn', sheet[i].title)]_vars

\* extract_data has failed on the second worksheet after filling the table
\* of the first
C9_Witness ==
  /\ call = "extract_data"
  /\ raised = "DatabaseError"
  /\ Len(sheet) = 2
  /\ Visited(log) = <<sheet[1].title, sheet[2].title>>
  /\ NumRecords(sheet[1].cells) >= 1
  /\ NumRecords(sheet[2].cells) >= 1
  /\ RowCount(dbconn, sheet[1].title) >= 1
  /\ sheet[2].title \notin DOMAIN dbconn

\* C10: update_in_range with more values than the range has cells fails
\* and leaves the worksheet unchanged; with fewer values the first
\* Len(values) cells of the range hold the values, in order, and every other
\* cell keeps its value.
C10_LengthMismatch ==
  [][call' = "update_in_range" => \A a \in RangeCalls :
       (update_in_range(a[1], a[2], a[3], a[4]) /\ HasTitle(sheet, a[1])) =>
         /\ Len(a[4]) > Len(RectCells(a[2], a[3])) =>
              raised' # "None" /\ sheet' = sheet
         /\ Len(a[4]) < Len(RectCells(a[2], a[3])) =>
              /\ SameListing(sheet, sheet')
              /\ \A k \in 1..Len(a[4]) :
                   ReadCell(sheet', a[1], RowColToA1(RectCells(a[2], a[3])[k])) = a[4][k]
              /\ \A i \in 1..Len(sheet) : \A rc \in Coords :
                   (sheet[i].title # a[1] \/ \A k \in 1..Len(a[4]) : RectCells(a[2], a[3])[k] # rc)
                     => sheet'[i].cells[rc[1]][rc[2]] = sheet[i].cells[rc[1]][rc[2]]]_vars

====
